---- MODULE Spec2Model ----
(***************************************************************************)
(* Model of src/server/asr-sd/whisper_diarization.py:                      *)
(* ParallelWhisperDiarization.transcribe (two tasks on a                   *)
(* ThreadPoolExecutor(max_workers=2), joined with as_completed, then       *)
(* merged) and of the pure merge helpers _merge_results,                   *)
(* _get_speaker_at_timestamp, _smart_join and _group_by_speaker.           *)
(*                                                                         *)
(* Conventions.                                                            *)
(*  - Times are integer ticks.  A name ending in 2 holds twice the value   *)
(*    the code computes (timestamp2 = 2 * timestamp), so that the code's   *)
(*    divisions by 2 stay exact.                                           *)
(*  - A Python str is a sequence of one-character strings.                 *)
(*  - An Optional value is <<>> (None) or <<v>>; the speaker None is the   *)
(*    string NoSpeaker, which is no diarization label.                     *)
(*  - The fields "probability" and "language" of a word are copied by      *)
(*    _merge_results and read by nothing in this file; they are left out.  *)
(***************************************************************************)
EXTENDS Integers, Sequences, FiniteSets, TLC

\* ------------------------------------------------------------------ bounds

\* Number of KeyboardInterrupts the user may send during one call.
MaxCancels == 2
\* Longest diarization timeline (number of tracks) enumerated.
MaxTracks == 3
\* Last tick of the enumerated time axis of the alignment inputs.
MaxTime == 3
\* Most words in an enumerated transcription.
MaxWords == 3
\* Longest enumerated text and token handed to _smart_join (characters).
MaxText == 2
\* Last tick of the clock time.time() reads during one call.
MaxClock == 2

\* ------------------------------------------------------------------ values

None == <<>>
Some(v) == <<v>>
NoSpeaker == "<None>"
Speakers == {"A", "B"}
\* sorted() on the labels: their order as Python strings.
SpeakerOrder == <<"A", "B">>

abs(x) == IF x < 0 THEN -x ELSE x

Range(s) == {s[i] : i \in DOMAIN s}

RECURSIVE SeqsUpTo(_, _)
SeqsUpTo(S, n) ==
    IF n = 0 THEN {<<>>}
    ELSE LET shorter == SeqsUpTo(S, n - 1)
         IN shorter \cup {Append(s, x) : s \in {t \in shorter : Len(t) = n - 1}, x \in S}

RECURSIVE Flatten(_)
Flatten(ss) == IF ss = <<>> THEN <<>> ELSE Head(ss) \o Flatten(Tail(ss))

\* ------------------------------------------------ _get_speaker_at_timestamp

\* Mutant: the bounds of the segment are excluded.
SegmentCoversStrictly(segment, timestamp2) ==
    2 * segment.start < timestamp2 /\ timestamp2 < 2 * segment.end

\* line 272: segment.start <= timestamp <= segment.end
SegmentCovers(segment, timestamp2) ==
    2 * segment.start <= timestamp2 /\ timestamp2 <= 2 * segment.end

\* Mutant: the first covering segment is kept, distances are not compared.
CloserNever(dist2, best_dist) == best_dist = None

\* Mutant: a later segment at the same distance replaces the best one.
CloserOrEqual(dist2, best_dist) == best_dist = None \/ dist2 <= best_dist[1]

\* line 275: best_dist is None or dist < best_dist
Closer(dist2, best_dist) == best_dist = None \/ dist2 < best_dist[1]

\* lines 271-277, one pass of the for loop per track, in itertracks order.
RECURSIVE SpeakerLoop(_, _, _, _, _)
SpeakerLoop(tracks, i, timestamp2, best_speaker, best_dist) ==
    IF i > Len(tracks) THEN best_speaker
    ELSE LET segment == tracks[i]
             center2 == segment.start + segment.end
             dist2 == abs(center2 - timestamp2)
         IN IF SegmentCovers(segment, timestamp2) /\ Closer(dist2, best_dist)
            THEN SpeakerLoop(tracks, i + 1, timestamp2, segment.speaker, Some(dist2))
            ELSE SpeakerLoop(tracks, i + 1, timestamp2, best_speaker, best_dist)

_get_speaker_at_timestamp(diar, timestamp2) ==
    SpeakerLoop(diar, 1, timestamp2, NoSpeaker, None)

\* ---------------------------------------------------------------- _smart_join

\* line 287
closing_punct ==
    {<<",">>, <<".">>, <<"!">>, <<"?">>, <<":">>, <<";">>, <<")">>, <<"]">>, <<"}">>, <<"'">>}
\* line 289
OpeningPunctBrackets == {"(", "[", "{"}
opening_punct == {"(", "[", "{", "'"}
\* str.isalnum() on the characters the model's tokens are made of.
Alnum == {"h", "i", "t", "e", "r", "b", "y", "o", "l", "w", "d", "s", "a", "1"}
isalnum(c) == c \in Alnum

\* lines 281-304
_smart_join(prev_text, token) ==
    IF prev_text = <<>> THEN token
    ELSE IF token \in closing_punct THEN prev_text \o token
    ELSE IF prev_text[Len(prev_text)] \in opening_punct THEN prev_text \o token
    ELSE IF token = <<"'">> /\ isalnum(prev_text[Len(prev_text)]) THEN prev_text \o token
    ELSE prev_text \o <<" ">> \o token

\* ----------------------------------------------------------- _group_by_speaker

\* lines 312-318 and 329-335: a segment opened on one word.
NewSegment(word_info) ==
    [speaker |-> word_info.speaker,
     start |-> word_info.start,
     end |-> word_info.end,
     text |-> word_info.word,
     words |-> <<word_info>>]

\* Mutant: the word's text is joined but the word is not kept.
ExtendSegmentDropsWord(current_segment, word_info) ==
    [current_segment EXCEPT
        !.text = _smart_join(current_segment.text, word_info.word),
        !.end = word_info.end]

\* Mutant: the segment's end is not moved to the word's end.
ExtendSegmentKeepsEnd(current_segment, word_info) ==
    [current_segment EXCEPT
        !.text = _smart_join(current_segment.text, word_info.word),
        !.words = Append(current_segment.words, word_info)]

\* lines 322-326: the word joins the current segment.
ExtendSegment(current_segment, word_info) ==
    [current_segment EXCEPT
        !.text = _smart_join(current_segment.text, word_info.word),
        !.end = word_info.end,
        !.words = Append(current_segment.words, word_info)]

\* Mutant: an unassigned word never joins the current segment.
SameSpeakerAssigned(word_info, current_segment) ==
    word_info.speaker = current_segment.speaker /\ word_info.speaker # NoSpeaker

\* Mutant: every word opens a segment.
SameSpeakerNever(word_info, current_segment) == FALSE

\* line 321
SameSpeaker(word_info, current_segment) == word_info.speaker = current_segment.speaker

\* lines 320-337, one pass of the for loop per word of word_segments[1:].
RECURSIVE GroupLoop(_, _, _, _)
GroupLoop(word_segments, i, segments, current_segment) ==
    IF i > Len(word_segments) THEN Append(segments, current_segment)
    ELSE LET word_info == word_segments[i]
         IN IF SameSpeaker(word_info, current_segment)
            THEN GroupLoop(word_segments, i + 1, segments,
                           ExtendSegment(current_segment, word_info))
            ELSE GroupLoop(word_segments, i + 1, Append(segments, current_segment),
                           NewSegment(word_info))

\* lines 306-338
_group_by_speaker(word_segments) ==
    IF word_segments = <<>> THEN <<>>
    ELSE GroupLoop(word_segments, 2, <<>>, NewSegment(word_segments[1]))

\* --------------------------------------------------------------- _merge_results

\* lines 232-246: one aligned word per word of a segment that has "words".
AlignWord(diar, word_info) ==
    [word |-> word_info.word,
     start |-> word_info.start,
     end |-> word_info.end,
     speaker |-> _get_speaker_at_timestamp(diar, word_info.start + word_info.end)]

\* Mutant: the speaker is looked up at the segment's start, not its midpoint.
AlignFallbackAtStart(diar, segment) ==
    [word |-> segment.text,
     start |-> segment.start,
     end |-> segment.end,
     speaker |-> _get_speaker_at_timestamp(diar, 2 * segment.start)]

\* lines 216-230: a segment without "words" gives one word spanning the segment.
AlignFallback(diar, segment) ==
    [word |-> segment.text,
     start |-> segment.start,
     end |-> segment.end,
     speaker |-> _get_speaker_at_timestamp(diar, segment.start + segment.end)]

\* lines 213-246: the entries one transcribed segment appends to word_segments.
\* A segment is [start, end, text, words]; words = None when the key is absent.
SegmentWords(diar, segment) ==
    IF segment.words = None THEN <<AlignFallback(diar, segment)>>
    ELSE [k \in DOMAIN segment.words[1] |-> AlignWord(diar, segment.words[1][k])]

\* Mutant: the aligned words are sorted by start time.
RECURSIVE SortByStart(_)
SortByStart(ws) ==
    IF ws = <<>> THEN <<>>
    ELSE LET i == CHOOSE k \in DOMAIN ws :
                    /\ \A j \in DOMAIN ws : ws[k].start <= ws[j].start
                    /\ \A j \in 1 .. k - 1 : ws[j].start > ws[k].start
         IN <<ws[i]>> \o SortByStart(SubSeq(ws, 1, i - 1) \o SubSeq(ws, i + 1, Len(ws)))
WordSegmentsSorted(whisper, diar) ==
    SortByStart(Flatten([k \in DOMAIN whisper.segments |->
                            SegmentWords(diar, whisper.segments[k])]))

WordSegments(whisper, diar) ==
    Flatten([k \in DOMAIN whisper.segments |-> SegmentWords(diar, whisper.segments[k])])

\* Mutant: the labels are listed per word, without set().
UniqueSpeakersPerWord(word_segments) ==
    LET assigned == SelectSeq(word_segments, LAMBDA ws : ws.speaker # NoSpeaker)
    IN [k \in DOMAIN assigned |-> assigned[k].speaker]

\* lines 252-254: sorted(set(ws["speaker"] for ws in word_segments if ws["speaker"]))
UniqueSpeakers(word_segments) ==
    SelectSeq(SpeakerOrder,
              LAMBDA sp : \E k \in DOMAIN word_segments :
                              /\ word_segments[k].speaker # NoSpeaker
                              /\ word_segments[k].speaker = sp)

\* lines 206-262.  whisper.language = None when the key is absent (line 260).
_merge_results(whisper, diar) ==
    LET word_segments == WordSegments(whisper, diar)
    IN [text |-> whisper.text,
        segments |-> _group_by_speaker(word_segments),
        word_segments |-> word_segments,
        language |-> IF whisper.language = None THEN "unknown" ELSE whisper.language[1],
        speakers |-> UniqueSpeakers(word_segments)]

\* ------------------------------------------------------------------ transcribe

VARIABLES
    pc,               \* where the calling thread is in transcribe
    fut,              \* state of each future: none, pending, running, ok, exc, cancelled
    invoked,          \* how often each task closure (_run_whisper, _run_diarization) began
    taskRet,          \* what a finished task returned (first element of its tuple)
    waiterInstalled,  \* as_completed has installed its waiter on the futures
    finished_futures, \* futures as_completed will yield next, in this order
    ascPending,       \* futures as_completed has not yielded yet
    cur,              \* the loop variable `future`
    res,              \* the locals whisper_result and diarization_result
    exc,              \* the exception in flight in the calling thread
    result,           \* the local `result` (line 157); returned when pc = "returned"
    mergeRan,         \* _merge_results has been called
    cancels,          \* KeyboardInterrupts delivered so far
    cancelCalled,     \* the except blocks called cancel() on both futures
    cancelAt,         \* where the calling thread was when each interrupt arrived
    completion,       \* the tasks in the order their futures finished
    doneAtEnter,      \* the tasks already finished when as_completed was called
    clock,            \* what time.time() returns now, in ticks
    start_time,       \* the local start_time of transcribe (line 80)
    task_start,       \* the local start_time of each task closure (lines 185, 199)
    elapsed,          \* the elapsed time each closure returned (lines 191, 203)
    task_time,        \* the locals whisper_time and diarization_time
    parallel_time,    \* the local parallel_time (line 147)
    merge_start,      \* the local merge_start (line 155)
    merge_time,       \* the local merge_time (line 159)
    total_time,       \* the local total_time (line 160)
    timing,           \* result["timing"] (lines 168-176)
    word_info,        \* input of the alignment of one word (lines 232-246)
    diarization,      \* input: the tracks of the Annotation, in itertracks order
    whisper_result,   \* input of _merge_results
    records,          \* input: the tracks of an Annotation, in the order they were added
    prev_text,        \* input of _smart_join
    token,            \* input of _smart_join
    out               \* what the function under check returned

timeVars ==
    <<clock, start_time, task_start, elapsed, task_time, parallel_time, merge_start,
      merge_time, total_time, timing>>
callVars ==
    <<pc, fut, invoked, taskRet, waiterInstalled, finished_futures, ascPending, cur,
      res, exc, result, mergeRan, cancels, cancelCalled, cancelAt, completion, doneAtEnter,
      timeVars>>
fnVars == <<word_info, diarization, whisper_result, records, prev_text, token, out>>
vars == <<callVars, fnVars>>

Tasks == {"whisper", "diarization"}

\* A sample transcription and timeline, in ticks of half a second: the words
\* hi [0.0, 0.5], there [0.5, 1.0], bye [2.0, 2.5]; the turns A [0, 1], B [1.5, 3].
ScenarioWhisper ==
    [text |-> <<"h", "i", " ", "t", "h", "e", "r", "e", " ", "b", "y", "e">>,
     language |-> Some("en"),
     segments |-> <<[start |-> 0, end |-> 5,
                     text |-> <<"h", "i", " ", "t", "h", "e", "r", "e", " ", "b", "y", "e">>,
                     words |-> Some(<<[word |-> <<"h", "i">>, start |-> 0, end |-> 1],
                                      [word |-> <<"t", "h", "e", "r", "e">>, start |-> 1,
                   end |-> 2],
                                      [word |-> <<"b", "y", "e">>, start |-> 4,
                   end |-> 5]>>)]>>]
ScenarioDiarization ==
    <<[start |-> 0, end |-> 2, speaker |-> "A"], [start |-> 3, end |-> 6, speaker |-> "B"]>>

\* What each task may hand back in a call: a value of its collaborator, or None.
TaskOutputs(t) ==
    IF t = "whisper" THEN {Some(ScenarioWhisper), None}
    ELSE {Some(ScenarioDiarization), Some(<<>>), None}

\* Mutant: a task's failure reaches the caller as a generic error.
ErrorOfGeneric(t) == "RuntimeError"

\* The exception a task raised, as future.result() re-raises it (lines 121, 124).
ErrorOf(t) == IF t = "whisper" THEN "WhisperError" ELSE "DiarizationError"

InitCall ==
    /\ pc = "submit_whisper"
    /\ fut = [t \in Tasks |-> "none"]
    /\ invoked = [t \in Tasks |-> 0]
    /\ taskRet = [t \in Tasks |-> None]
    /\ waiterInstalled = FALSE
    /\ finished_futures = <<>>
    /\ ascPending = {}
    /\ cur = "whisper"
    /\ res = [t \in Tasks |-> None]
    /\ exc = "none"
    /\ result = None
    /\ mergeRan = FALSE
    /\ cancels = 0
    /\ cancelCalled = FALSE
    /\ cancelAt = {}
    /\ completion = <<>>
    /\ doneAtEnter = {}
    /\ clock = 0
    /\ start_time = clock
    /\ task_start = [t \in Tasks |-> 0]
    /\ elapsed = [t \in Tasks |-> 0]
    /\ task_time = [t \in Tasks |-> 0]
    /\ parallel_time = None
    /\ merge_start = None
    /\ merge_time = None
    /\ total_time = None
    /\ timing = None

InitFnIdle ==
    /\ word_info = None
    /\ diarization = <<>>
    /\ whisper_result = None
    /\ records = <<>>
    /\ prev_text = <<>>
    /\ token = <<>>
    /\ out = None

Init == InitCall /\ InitFnIdle

\* lines 110-112 and 113-115: executor.submit queues the work item.
Submit(t, nextpc) ==
    /\ fut' = [fut EXCEPT ![t] = "pending"]
    /\ pc' = nextpc
    /\ UNCHANGED fnVars
    /\ UNCHANGED timeVars
    /\ UNCHANGED <<invoked, taskRet, waiterInstalled, finished_futures, ascPending, cur,
                   res, exc, result, mergeRan, cancels, cancelAt, completion, doneAtEnter,
                   cancelCalled>>

SubmitWhisper == pc = "submit_whisper" /\ Submit("whisper", "submit_diarization")
SubmitDiarization == pc = "submit_diarization" /\ Submit("diarization", "as_completed")

\* A worker thread takes the work item off the queue and calls the closure
\* (lines 180-185, 194-199).  A cancelled future is skipped by the worker.
WorkerStart(t) ==
    /\ fut[t] = "pending"
    /\ fut' = [fut EXCEPT ![t] = "running"]
    /\ invoked' = [invoked EXCEPT ![t] = @ + 1]
    /\ task_start' = [task_start EXCEPT ![t] = clock]
    /\ UNCHANGED fnVars
    /\ UNCHANGED <<clock, start_time, elapsed, task_time, parallel_time, merge_start,
                   merge_time, total_time, timing>>
    /\ UNCHANGED <<pc, taskRet, waiterInstalled, finished_futures, ascPending, cur,
                   res, exc, result, mergeRan, cancels, cancelAt, completion, doneAtEnter,
                   cancelCalled>>

\* The future reaches FINISHED and tells the waiter as_completed installed.
Notify(t) ==
    /\ finished_futures' = IF waiterInstalled THEN Append(finished_futures, t)
                           ELSE finished_futures
    /\ completion' = Append(completion, t)

\* lines 187-192, 201-204: the closure reads the clock and returns (result, elapsed).
TaskReturn(t) ==
    /\ fut[t] = "running"
    /\ \E v \in TaskOutputs(t) : taskRet' = [taskRet EXCEPT ![t] = v]
    /\ elapsed' = [elapsed EXCEPT ![t] = clock - task_start[t]]
    /\ fut' = [fut EXCEPT ![t] = "ok"]
    /\ Notify(t)
    /\ UNCHANGED fnVars
    /\ UNCHANGED <<clock, start_time, task_start, task_time, parallel_time, merge_start,
                   merge_time, total_time, timing>>
    /\ UNCHANGED <<pc, invoked, waiterInstalled, ascPending, cur,
                   res, exc, result, mergeRan, cancels, cancelAt, cancelCalled, doneAtEnter>>

\* lines 189, 201: the collaborator raises inside the closure.
TaskRaise(t) ==
    /\ fut[t] = "running"
    /\ fut' = [fut EXCEPT ![t] = "exc"]
    /\ Notify(t)
    /\ UNCHANGED fnVars
    /\ UNCHANGED timeVars
    /\ UNCHANGED <<pc, invoked, taskRet, waiterInstalled, ascPending, cur,
                   res, exc, result, mergeRan, cancels, cancelAt, cancelCalled, doneAtEnter>>

\* line 118, first next(): as_completed takes the futures that are already
\* finished (a set: any order) and installs its waiter for the others.
AsCompletedEnter ==
    /\ pc = "as_completed"
    /\ LET finished == {t \in Tasks : fut[t] \in {"ok", "exc"}}
       IN \E order \in SeqsUpTo(Tasks, Cardinality(Tasks)) :
              /\ Len(order) = Cardinality(finished)
              /\ Range(order) = finished
              /\ finished_futures' = order
              /\ doneAtEnter' = finished
    /\ waiterInstalled' = TRUE
    /\ ascPending' = Tasks
    /\ pc' = "next"
    /\ UNCHANGED fnVars
    /\ UNCHANGED timeVars
    /\ UNCHANGED <<fut, invoked, taskRet, cur, res, exc, result, mergeRan, cancels,
                   cancelAt, completion, cancelCalled>>

\* line 118: as_completed yields the next finished future; it blocks while
\* none is finished and some have not been yielded.
AsCompletedYield ==
    /\ pc = "next"
    /\ finished_futures # <<>>
    /\ cur' = Head(finished_futures)
    /\ finished_futures' = Tail(finished_futures)
    /\ ascPending' = ascPending \ {Head(finished_futures)}
    /\ pc' = "body"
    /\ UNCHANGED fnVars
    /\ UNCHANGED timeVars
    /\ UNCHANGED <<fut, invoked, taskRet, waiterInstalled, res, exc, result, mergeRan,
                   cancels, cancelAt, completion, doneAtEnter, cancelCalled>>

\* line 118: every future was yielded, the for loop ends; the try block is
\* left without an exception and the finally clause runs.
AsCompletedStop ==
    /\ pc = "next"
    /\ ascPending = {}
    /\ pc' = "finally"
    /\ UNCHANGED fnVars
    /\ UNCHANGED timeVars
    /\ UNCHANGED <<fut, invoked, taskRet, waiterInstalled, finished_futures, ascPending,
                   cur, res, exc, result, mergeRan, cancels, cancelAt, completion, doneAtEnter,
                   cancelCalled>>

\* Mutant: a failed diarization is replaced by an empty timeline and the loop
\* goes on.
FutureResultSubstitutes ==
    /\ pc = "body"
    /\ \/ /\ fut[cur] = "ok"
          /\ res' = [res EXCEPT ![cur] = taskRet[cur]]
          /\ pc' = "next"
          /\ exc' = exc
       \/ /\ fut[cur] = "exc"
          /\ cur = "diarization"
          /\ res' = [res EXCEPT ![cur] = Some(<<>>)]
          /\ pc' = "next"
          /\ exc' = exc
       \/ /\ fut[cur] = "exc"
          /\ cur # "diarization"
          /\ exc' = ErrorOf(cur)
          /\ pc' = "except_exception"
          /\ res' = res
    /\ UNCHANGED fnVars
    /\ UNCHANGED timeVars
    /\ UNCHANGED <<fut, invoked, taskRet, waiterInstalled, finished_futures, ascPending,
                   cur, result, mergeRan, cancels, cancelAt, completion, doneAtEnter,
                   cancelCalled>>

\* Mutant: a failed task is submitted again and the loop waits for it.
FutureResultRetries ==
    /\ pc = "body"
    /\ \/ /\ fut[cur] = "ok"
          /\ res' = [res EXCEPT ![cur] = taskRet[cur]]
          /\ UNCHANGED <<fut, ascPending>>
       \/ /\ fut[cur] = "exc"
          /\ fut' = [fut EXCEPT ![cur] = "pending"]
          /\ ascPending' = ascPending \cup {cur}
          /\ res' = res
    /\ pc' = "next"
    /\ UNCHANGED fnVars
    /\ UNCHANGED timeVars
    /\ UNCHANGED <<invoked, taskRet, waiterInstalled, finished_futures, cur, exc,
                   result, mergeRan, cancels, cancelAt, completion, doneAtEnter, cancelCalled>>

\* Mutant: only the tuple of the first future yielded is kept.
FutureResultFirstOnly ==
    /\ pc = "body"
    /\ \/ /\ fut[cur] = "ok"
          /\ res' = IF \A t \in Tasks : t \in ascPending \/ t = cur
                    THEN [res EXCEPT ![cur] = taskRet[cur]]
                    ELSE res
          /\ pc' = "next"
          /\ exc' = exc
       \/ /\ fut[cur] = "exc"
          /\ exc' = ErrorOf(cur)
          /\ pc' = "except_exception"
          /\ res' = res
    /\ UNCHANGED fnVars
    /\ UNCHANGED timeVars
    /\ UNCHANGED <<fut, invoked, taskRet, waiterInstalled, finished_futures, ascPending,
                   cur, result, mergeRan, cancels, cancelAt, completion, doneAtEnter,
                   cancelCalled>>

\* lines 119-125 and 132: future.result() of a finished future returns the
\* task's tuple, or raises the task's exception into `except Exception`.
FutureResult ==
    /\ pc = "body"
    /\ \/ /\ fut[cur] = "ok"
          /\ res' = [res EXCEPT ![cur] = taskRet[cur]]
          /\ task_time' = [task_time EXCEPT ![cur] = elapsed[cur]]
          /\ pc' = "next"
          /\ exc' = exc
       \/ /\ fut[cur] = "exc"
          /\ exc' = ErrorOf(cur)
          /\ pc' = "except_exception"
          /\ res' = res
          /\ task_time' = task_time
    /\ UNCHANGED fnVars
    /\ UNCHANGED <<clock, start_time, task_start, elapsed, parallel_time, merge_start,
                   merge_time, total_time, timing>>
    /\ UNCHANGED <<fut, invoked, taskRet, waiterInstalled, finished_futures, ascPending,
                   cur, result, mergeRan, cancels, cancelAt, completion, doneAtEnter,
                   cancelCalled>>

\* Mutant: the outer handler forgets to re-raise.
OuterExceptSwallows(e) == "none"

\* lines 138-140: the outer handler prints and re-raises the interrupt.
OuterExcept(e) == e

\* Future.cancel() and shutdown(cancel_futures=True): only a future that no
\* worker has started is cancelled; a running or finished one is left alone.
CancelFutures(f) == [t \in Tasks |-> IF f[t] = "pending" THEN "cancelled" ELSE f[t]]

\* Mutant: the clean-up surfaces the other task's failure when it has one.
ExceptBlockSiblingError ==
    /\ pc \in {"except_exception", "except_interrupt"}
    /\ fut' = CancelFutures(fut)
    /\ cancelCalled' = TRUE
    /\ exc' = IF \E t \in Tasks \ {cur} : fut[t] = "exc"
              THEN ErrorOf(CHOOSE t \in Tasks \ {cur} : fut[t] = "exc")
              ELSE exc
    /\ pc' = "finally"
    /\ UNCHANGED fnVars
    /\ UNCHANGED timeVars
    /\ UNCHANGED <<invoked, taskRet, waiterInstalled, finished_futures, ascPending, cur,
                   res, result, mergeRan, cancels, cancelAt, completion, doneAtEnter>>

\* lines 132-137 and 126-131 (then 138-140): both except blocks cancel the two
\* futures, shut the executor down without waiting and re-raise; the exception
\* leaves the try block and the finally clause runs.
ExceptBlock ==
    /\ pc \in {"except_exception", "except_interrupt"}
    /\ fut' = CancelFutures(fut)
    /\ cancelCalled' = TRUE
    /\ exc' = IF pc = "except_interrupt" THEN OuterExcept(exc) ELSE exc
    /\ pc' = "finally"
    /\ UNCHANGED fnVars
    /\ UNCHANGED timeVars
    /\ UNCHANGED <<invoked, taskRet, waiterInstalled, finished_futures, ascPending, cur,
                   res, result, mergeRan, cancels, cancelAt, completion, doneAtEnter>>

\* Mutant: the join waits until both futures have run to their end.
WorkersIdleBothRan == \A t \in Tasks : fut[t] \in {"ok", "exc"}

\* line 142: executor.shutdown(wait=True) joins the worker threads; they exit
\* once no work item is queued or running.
WorkersIdle == \A t \in Tasks : fut[t] \notin {"pending", "running"}

\* Mutant: the finally clause shuts down without waiting for the workers.
FinallyNoWait ==
    /\ pc = "finally"
    /\ pc' = IF exc = "none" THEN "check" ELSE "raised"
    /\ UNCHANGED fnVars
    /\ UNCHANGED timeVars
    /\ UNCHANGED <<fut, invoked, taskRet, waiterInstalled, finished_futures, ascPending,
                   cur, res, exc, result, mergeRan, cancels, cancelAt, completion, doneAtEnter,
                   cancelCalled>>

\* Mutant: the finally clause drops the pending exception and the call goes on.
FinallySwallows ==
    /\ pc = "finally"
    /\ WorkersIdle
    /\ pc' = "check"
    /\ UNCHANGED fnVars
    /\ UNCHANGED timeVars
    /\ UNCHANGED <<fut, invoked, taskRet, waiterInstalled, finished_futures, ascPending,
                   cur, res, exc, result, mergeRan, cancels, cancelAt, completion, doneAtEnter,
                   cancelCalled>>

\* lines 141-145: after the join the pending exception propagates, or the
\* call goes on to the check of line 144.
Finally ==
    /\ pc = "finally"
    /\ WorkersIdle
    /\ pc' = IF exc = "none" THEN "check" ELSE "raised"
    /\ UNCHANGED fnVars
    /\ UNCHANGED timeVars
    /\ UNCHANGED <<fut, invoked, taskRet, waiterInstalled, finished_futures, ascPending,
                   cur, res, exc, result, mergeRan, cancels, cancelAt, completion, doneAtEnter,
                   cancelCalled>>

\* Mutant: the check fires only when both results are missing.
ResultMissingBoth == res["whisper"] = None /\ res["diarization"] = None

\* lines 144-145
ResultMissing == res["whisper"] = None \/ res["diarization"] = None

CheckResults ==
    /\ pc = "check"
    /\ IF ResultMissing
       THEN exc' = "RuntimeError" /\ pc' = "raised"
       ELSE exc' = exc /\ pc' = "parallel_time"
    /\ UNCHANGED fnVars
    /\ UNCHANGED timeVars
    /\ UNCHANGED <<fut, invoked, taskRet, waiterInstalled, finished_futures, ascPending,
                   cur, res, result, mergeRan, cancels, cancelAt, completion, doneAtEnter,
                   cancelCalled>>

\* What the timing steps of the calling thread leave alone.
TimingStep(nextpc) ==
    /\ pc' = nextpc
    /\ UNCHANGED fnVars
    /\ UNCHANGED <<fut, invoked, taskRet, waiterInstalled, finished_futures, ascPending,
                   cur, res, exc, result, mergeRan, cancels, cancelAt, completion, doneAtEnter,
                   cancelCalled>>
    /\ UNCHANGED <<clock, start_time, task_start, elapsed, task_time>>

\* line 147: parallel_time = time.time() - start_time
ParallelTime ==
    /\ pc = "parallel_time"
    /\ parallel_time' = Some(clock - start_time)
    /\ UNCHANGED <<merge_start, merge_time, total_time, timing>>
    /\ TimingStep("merge_start")

\* line 155: merge_start = time.time()
MergeStart ==
    /\ pc = "merge_start"
    /\ merge_start' = Some(clock)
    /\ UNCHANGED <<parallel_time, merge_time, total_time, timing>>
    /\ TimingStep("merge")

\* line 157: result = self._merge_results(whisper_result, diarization_result)
Merge ==
    /\ pc = "merge"
    /\ result' = Some(_merge_results(res["whisper"][1], res["diarization"][1]))
    /\ mergeRan' = TRUE
    /\ pc' = "timing"
    /\ UNCHANGED fnVars
    /\ UNCHANGED timeVars
    /\ UNCHANGED <<fut, invoked, taskRet, waiterInstalled, finished_futures, ascPending,
                   cur, res, exc, cancels, cancelAt, completion, doneAtEnter, cancelCalled>>

\* line 159: merge_time = time.time() - merge_start
MergeTime ==
    /\ pc = "timing"
    /\ merge_time' = Some(clock - merge_start[1])
    /\ UNCHANGED <<parallel_time, merge_start, total_time, timing>>
    /\ TimingStep("total_time")

\* Mutant: total_time is measured from merge_start.
TotalTimeSinceMerge ==
    /\ pc = "total_time"
    /\ total_time' = Some(clock - merge_start[1])
    /\ UNCHANGED <<parallel_time, merge_start, merge_time, timing>>
    /\ TimingStep("report")

\* line 160: total_time = time.time() - start_time
TotalTime ==
    /\ pc = "total_time"
    /\ total_time' = Some(clock - start_time)
    /\ UNCHANGED <<parallel_time, merge_start, merge_time, timing>>
    /\ TimingStep("report")

\* Mutant: time_saved is never reported below zero.
TimeSavedClamped(w, d, p) == IF w + d - p < 0 THEN 0 ELSE w + d - p

\* line 175
TimeSaved(w, d, p) == w + d - p

\* lines 168-178: the timing record is added and the result returned.
Return ==
    /\ pc = "report"
    /\ timing' = Some([whisper_time |-> task_time["whisper"],
                       diarization_time |-> task_time["diarization"],
                       parallel_time |-> parallel_time[1],
                       merge_time |-> merge_time[1],
                       total_time |-> total_time[1],
                       time_saved |-> TimeSaved(task_time["whisper"], task_time["diarization"],
                                                parallel_time[1])])
    /\ UNCHANGED <<parallel_time, merge_start, merge_time, total_time>>
    /\ TimingStep("returned")

\* time.time() moves on while the call is in progress.
Tick ==
    /\ clock < MaxClock
    /\ pc \notin {"returned", "raised"}
    /\ clock' = clock + 1
    /\ UNCHANGED fnVars
    /\ UNCHANGED <<pc, fut, invoked, taskRet, waiterInstalled, finished_futures, ascPending,
                   cur, res, exc, result, mergeRan, cancels, cancelAt, completion, doneAtEnter,
                   cancelCalled>>
    /\ UNCHANGED <<start_time, task_start, elapsed, task_time, parallel_time, merge_start,
                   merge_time, total_time, timing>>

\* The calling thread is blocked inside as_completed: nothing to yield yet.
Waiting == pc = "next" /\ finished_futures = <<>> /\ ascPending # {}

\* The user's interrupt: KeyboardInterrupt is raised in the calling thread
\* wherever it is.  In the loop body it is caught by line 126; in the rest of
\* the try block (submit, as_completed, the except blocks) by line 138, which
\* re-raises into the finally clause; in the finally clause and after it
\* nothing catches it.  Raised inside an except block it may come before or
\* after the cancel() calls.
KeyboardInterrupt ==
    /\ cancels < MaxCancels
    /\ pc \notin {"returned", "raised"}
    /\ cancels' = cancels + 1
    /\ cancelAt' = cancelAt \cup {IF Waiting THEN "waiting" ELSE pc}
    /\ \/ /\ pc = "body"
          /\ pc' = "except_interrupt"
          /\ exc' = "KeyboardInterrupt"
          /\ UNCHANGED <<fut, cancelCalled>>
       \/ /\ pc \in {"submit_whisper", "submit_diarization", "as_completed", "next"}
          /\ pc' = "finally"
          /\ exc' = OuterExcept("KeyboardInterrupt")
          /\ UNCHANGED <<fut, cancelCalled>>
       \/ /\ pc \in {"except_exception", "except_interrupt"}
          /\ pc' = "finally"
          /\ exc' = OuterExcept("KeyboardInterrupt")
          /\ \/ UNCHANGED <<fut, cancelCalled>>
             \/ fut' = CancelFutures(fut) /\ cancelCalled' = TRUE
       \/ /\ pc \in {"finally", "check", "parallel_time", "merge_start", "merge", "timing",
                     "total_time", "report"}
          /\ pc' = "raised"
          /\ exc' = "KeyboardInterrupt"
          /\ UNCHANGED <<fut, cancelCalled>>
    /\ UNCHANGED fnVars
    /\ UNCHANGED timeVars
    /\ UNCHANGED <<invoked, taskRet, waiterInstalled, finished_futures, ascPending, cur,
                   res, result, mergeRan, completion, doneAtEnter>>

MainStep ==
    \/ SubmitWhisper
    \/ SubmitDiarization
    \/ AsCompletedEnter
    \/ AsCompletedYield
    \/ AsCompletedStop
    \/ FutureResult
    \/ ExceptBlock
    \/ Finally
    \/ CheckResults
    \/ ParallelTime
    \/ MergeStart
    \/ Merge
    \/ MergeTime
    \/ TotalTime
    \/ Return

Next ==
    \/ SubmitWhisper
    \/ SubmitDiarization
    \/ \E t \in Tasks : WorkerStart(t)
    \/ \E t \in Tasks : TaskReturn(t)
    \/ \E t \in Tasks : TaskRaise(t)
    \/ AsCompletedEnter
    \/ AsCompletedYield
    \/ AsCompletedStop
    \/ FutureResult
    \/ ExceptBlock
    \/ Finally
    \/ CheckResults
    \/ ParallelTime
    \/ MergeStart
    \/ Merge
    \/ MergeTime
    \/ TotalTime
    \/ Return
    \/ KeyboardInterrupt
    \/ Tick

Spec == Init /\ [][Next]_vars

\* Fair scheduling: the calling thread goes on whenever it can, a worker
\* takes a queued task, and a task that runs finishes (returns or raises).
\* Interrupts and clock ticks are not forced.
FairSpec ==
    /\ Init
    /\ [][Next]_vars
    /\ WF_vars(MainStep)
    /\ \A t \in Tasks : WF_vars(WorkerStart(t))
    /\ \A t \in Tasks : WF_vars(TaskReturn(t) \/ TaskRaise(t))

\* ------------------------------------------------- the merge helpers, alone

\* pyannote.core.Annotation keeps its tracks keyed by segment in a sorted
\* container: itertracks (line 271) yields them in ascending (start, end)
\* order, tracks of one segment in track-name order, whatever the order they
\* were added in; a segment with start >= end is empty and is never stored.
\* A timeline is the sequence itertracks yields.
Times == 0 .. MaxTime
Tracks == {tr \in [start : Times, end : Times, speaker : Speakers] : tr.start < tr.end}
SegmentBefore(a, b) == a.start < b.start \/ (a.start = b.start /\ a.end <= b.end)
IsItertracksOrder(d) ==
    \A i \in DOMAIN d : \A j \in DOMAIN d : i < j => SegmentBefore(d[i], d[j])
Annotations == {d \in SeqsUpTo(Tracks, MaxTracks) : IsItertracksOrder(d)}

\* One transcribed word: "hi" over a span of the time axis (start <= end).
WordInfos == {w \in [word : {<<"h", "i">>}, start : Times, end : Times] : w.start <= w.end}

AlignInit ==
    /\ InitCall
    /\ word_info \in {Some(w) : w \in WordInfos}
    /\ diarization \in Annotations
    /\ whisper_result = None
    /\ records = <<>>
    /\ prev_text = <<>>
    /\ token = <<>>
    /\ out = None

\* lines 232-246 with 264-279: one word is aligned against the timeline.
AlignOneWord ==
    /\ out = None
    /\ out' = Some(AlignWord(diarization, word_info[1]))
    /\ UNCHANGED <<word_info, diarization, whisper_result, records, prev_text, token>>
    /\ UNCHANGED callVars

AlignNext == AlignOneWord

AlignSpec == AlignInit /\ [][AlignNext]_vars

\* An Annotation as it is built: tracks added in any order, each under its
\* own (segment, track name) key. Track names are 0 and 1.
OrderTimes == 0 .. 2
TrackNames == {0, 1}
Records ==
    {tr \in [start : OrderTimes, end : OrderTimes, track : TrackNames, speaker : Speakers] :
        tr.start < tr.end}
SameKey(a, b) == a.start = b.start /\ a.end = b.end /\ a.track = b.track
RecordLists ==
    {rs \in SeqsUpTo(Records, MaxTracks) :
        \A i \in DOMAIN rs : \A j \in DOMAIN rs : i # j => ~SameKey(rs[i], rs[j])}
OrderWords == {w \in WordInfos : w.end \in OrderTimes}

\* line 271: itertracks yields the tracks by ascending (start, end, track
\* name), not in the order they were added.
TrackBefore(a, b) ==
    \/ a.start < b.start
    \/ a.start = b.start /\ a.end < b.end
    \/ a.start = b.start /\ a.end = b.end /\ a.track < b.track
RECURSIVE SortTracks(_)
SortTracks(rs) ==
    IF rs = <<>> THEN <<>>
    ELSE LET i == CHOOSE k \in DOMAIN rs :
                    \A j \in DOMAIN rs \ {k} : TrackBefore(rs[k], rs[j])
         IN <<rs[i]>> \o SortTracks(SubSeq(rs, 1, i - 1) \o SubSeq(rs, i + 1, Len(rs)))
ItertracksAsAdded(rs) == rs
itertracks(rs) == SortTracks(rs)

OrderInit ==
    /\ InitCall
    /\ word_info \in {Some(w) : w \in OrderWords}
    /\ diarization = <<>>
    /\ whisper_result = None
    /\ records \in RecordLists
    /\ prev_text = <<>>
    /\ token = <<>>
    /\ out = None

\* lines 232-246 with 264-279: one word is aligned against an Annotation
\* built from the records.
AlignRecords ==
    /\ out = None
    /\ diarization' = itertracks(records)
    /\ out' = Some(AlignWord(diarization', word_info[1]))
    /\ UNCHANGED <<word_info, whisper_result, records, prev_text, token>>
    /\ UNCHANGED callVars

OrderNext == AlignRecords

OrderSpec == OrderInit /\ [][OrderNext]_vars

\* Transcriptions handed to _merge_results: up to MaxWords words, packed into
\* Whisper segments in one of four shapes, plus the sample transcription.
Tokens == {<<"h", "i">>, <<",">>}
Spans == {<<0, 1>>, <<1, 2>>, <<2, 2>>, <<4, 5>>}
WordValues == {[word |-> tk, start |-> sp[1], end |-> sp[2]] : tk \in Tokens, sp \in Spans}
Shapes == {"words", "split", "fallback", "mixed"}

WordsSegment(ws) ==
    [start |-> IF ws = <<>> THEN 0 ELSE ws[1].start,
     end |-> IF ws = <<>> THEN 0 ELSE ws[Len(ws)].end,
     text |-> Flatten([k \in DOMAIN ws |-> ws[k].word]),
     words |-> Some(ws)]
FallbackSegment(w) == [start |-> w.start, end |-> w.end, text |-> w.word, words |-> None]

Pack(ws, shape, language) ==
    [text |-> Flatten([k \in DOMAIN ws |-> ws[k].word]),
     language |-> language,
     segments |->
        CASE shape = "words" -> <<WordsSegment(ws)>>
          [] shape = "split" -> [k \in DOMAIN ws |-> WordsSegment(<<ws[k]>>)]
          [] shape = "fallback" -> [k \in DOMAIN ws |-> FallbackSegment(ws[k])]
          [] shape = "mixed" ->
                IF ws = <<>> THEN <<>>
                ELSE <<FallbackSegment(ws[1]), WordsSegment(Tail(ws))>>]

Transcriptions ==
    {Pack(ws, shape, Some("en")) : ws \in SeqsUpTo(WordValues, MaxWords), shape \in Shapes}
    \cup {Pack(ws, "words", None) : ws \in SeqsUpTo(WordValues, MaxWords)}
    \cup {ScenarioWhisper}

\* Timelines for the merge: empty, one speaker, a gap, adjacent, overlapping
\* and nested turns, and the sample timeline.
SampleTimelines ==
    {<<>>,
     <<[start |-> 0, end |-> 2, speaker |-> "A"]>>,
     <<[start |-> 0, end |-> 1, speaker |-> "A"], [start |-> 1, end |-> 3, speaker |-> "B"]>>,
     <<[start |-> 0, end |-> 2, speaker |-> "B"], [start |-> 1, end |-> 5, speaker |-> "A"]>>,
     <<[start |-> 0, end |-> 5, speaker |-> "A"], [start |-> 1, end |-> 2, speaker |-> "B"]>>,
     ScenarioDiarization}

MergeInit ==
    /\ InitCall
    /\ word_info = None
    /\ diarization \in SampleTimelines
    /\ whisper_result \in {Some(w) : w \in Transcriptions}
    /\ records = <<>>
    /\ prev_text = <<>>
    /\ token = <<>>
    /\ out = None

\* lines 206-262: _merge_results(whisper_result, diarization)
MergeResults ==
    /\ out = None
    /\ out' = Some(_merge_results(whisper_result[1], diarization))
    /\ UNCHANGED <<word_info, diarization, whisper_result, records, prev_text, token>>
    /\ UNCHANGED callVars

MergeNext == MergeResults

MergeSpec == MergeInit /\ [][MergeNext]_vars

\* ------------------------------------------------------------ _smart_join, alone

\* Texts and tokens: every string of up to MaxText characters over a letter, a
\* closing mark, the apostrophe and an opening mark; every one-character
\* string over the marks of lines 287 and 289 and the space; and three words.
JoinChars == {"h", ",", "'", "("}
MarkChars == {",", ".", "!", "?", ":", ";", ")", "]", "}", "'", "(", "[", "{", " "}
JoinWords == {<<"h", "e", "l", "l", "o">>, <<"w", "o", "r", "l", "d">>,
              <<"t", "h", "e", "r", "e">>}
JoinStrings == SeqsUpTo(JoinChars, MaxText) \cup {<<c>> : c \in MarkChars} \cup JoinWords

JoinInit ==
    /\ InitCall
    /\ word_info = None
    /\ diarization = <<>>
    /\ whisper_result = None
    /\ records = <<>>
    /\ prev_text \in JoinStrings
    /\ token \in JoinStrings
    /\ out = None

\* lines 281-304: _smart_join(prev_text, token)
SmartJoin ==
    /\ out = None
    /\ out' = Some(_smart_join(prev_text, token))
    /\ UNCHANGED <<word_info, diarization, whisper_result, records, prev_text, token>>
    /\ UNCHANGED callVars

JoinNext == SmartJoin

JoinSpec == JoinInit /\ [][JoinNext]_vars

\* ------------------------------------------------------------- claims: the call

Terminated == pc \in {"returned", "raised"}
Returned == IF pc = "returned" THEN result ELSE None
TaskErrors == {ErrorOf(t) : t \in Tasks}

\* C1: once a task has raised, whatever the completion order, the call never
\* returns a result and never runs the merge; when it ends it ends raising.
C1_FailureIsFatal ==
    (\E t \in Tasks : fut[t] = "exc") =>
        /\ pc # "returned"
        /\ Returned = None
        /\ ~mergeRan
        /\ result = None
        /\ Terminated => (pc = "raised" /\ exc # "none")

\* C1 witness: transcription completed and was collected, then diarization
\* raised, and the call has ended raising the diarization's error.
C1_Witness ==
    /\ fut["whisper"] = "ok"
    /\ res["whisper"] # None
    /\ fut["diarization"] = "exc"
    /\ pc = "raised"
    /\ exc = "DiarizationError"

\* C2: the merge is about to run, running or finished only when both tasks
\* have completed without raising (none pending, running, failed, cancelled).
C2_MergeAfterBoth ==
    (mergeRan \/ pc \in {"parallel_time", "merge_start", "merge", "timing", "total_time",
                       "report", "returned"}) =>
        \A t \in Tasks : fut[t] = "ok"

\* C2 witness: the merge has run.
C2_Witness == mergeRan /\ pc = "timing" /\ result # None

\* C3: after an interrupt that arrived while the call was waiting for the
\* tasks, the calling thread never depends on a task to go on: until the call
\* has ended its own next step is enabled (so it ends within its own finitely
\* many steps even if a task never ends).
C3_InterruptReturnsWithoutTasks ==
    ("waiting" \in cancelAt /\ ~Terminated) => ENABLED MainStep

\* C4: after a task failure was raised in the calling thread, the call does
\* not wait for the other task: its own next step is enabled until it ends.
C4_FailureReturnsWithoutSibling ==
    (exc \in TaskErrors /\ ~Terminated) => ENABLED MainStep

\* C5: a call that was interrupted ends raising KeyboardInterrupt and returns
\* nothing; a call that was not interrupted never ends raising it.
C5_CancellationDistinct ==
    Terminated =>
        /\ cancels > 0 => (pc = "raised" /\ exc = "KeyboardInterrupt" /\ Returned = None)
        /\ cancels = 0 => exc # "KeyboardInterrupt"

\* C5 witness: an interrupt and a task failure in the same call, ended as a
\* cancellation.
C5_Witness ==
    /\ pc = "raised"
    /\ cancels > 0
    /\ exc = "KeyboardInterrupt"
    /\ \E t \in Tasks : fut[t] = "exc"

\* C6 as claimed: when the call has ended, each closure was invoked exactly once.
C6_ExactlyOnce == Terminated => \A t \in Tasks : invoked[t] = 1

\* C6 amended: a closure is never invoked twice; it is invoked exactly once in
\* every call that returns a result; it is skipped only in a call that ended
\* in a task failure or an interrupt before a worker started it.
C6_AtMostOnce ==
    \A t \in Tasks :
        /\ invoked[t] <= 1
        /\ pc = "returned" => invoked[t] = 1
        /\ (Terminated /\ invoked[t] = 0) =>
               /\ fut[t] \in {"none", "pending", "cancelled"}
               /\ exc \in TaskErrors \cup {"KeyboardInterrupt"}

\* C6 witness: the call ended on the transcription's failure with the
\* diarization closure cancelled before it began.
C6_Witness ==
    /\ pc = "raised"
    /\ exc = "WhisperError"
    /\ invoked["whisper"] = 1
    /\ invoked["diarization"] = 0
    /\ fut["diarization"] = "cancelled"

\* ------------------------------------------------ claims: alignment and merge

Merged == out[1]
SegmentsFlattened(segments) == Flatten([k \in DOMAIN segments |-> segments[k].words])

\* C7: the words lists of the segments, concatenated in segment order, are the
\* flat aligned word list: same length, same order, same entries.
C7_NoLoss ==
    out # None => SegmentsFlattened(Merged.segments) = Merged.word_segments

\* C7 witness: three words in two segments.
C7_Witness ==
    /\ out # None
    /\ Len(Merged.word_segments) = 3
    /\ Len(Merged.segments) = 2
    /\ Merged.segments[1].speaker # NoSpeaker

\* Twice the midpoint of the word, the tracks covering it (bounds included),
\* twice the distance of a track's center to it, the nearest covering tracks.
Mid2 == word_info[1].start + word_info[1].end
Covering ==
    {i \in DOMAIN diarization :
        2 * diarization[i].start <= Mid2 /\ Mid2 <= 2 * diarization[i].end}
CenterDist2(i) == abs((diarization[i].start + diarization[i].end) - Mid2)
Nearest == {i \in Covering : \A j \in Covering : CenterDist2(i) <= CenterDist2(j)}
Aligned == out[1]

\* C8: a word whose midpoint is covered by exactly one interval gets that
\* interval's speaker; one covered by no interval gets None.
C8_Containment ==
    out # None =>
        /\ Covering = {} => Aligned.speaker = NoSpeaker
        /\ \A i \in Covering : Covering = {i} => Aligned.speaker = diarization[i].speaker

\* C8 witness: the midpoint lies on the end of the only interval covering it,
\* among several intervals.
C8_Witness ==
    /\ out # None
    /\ Len(diarization) >= 2
    /\ \E i \in Covering :
           /\ Covering = {i}
           /\ Mid2 = 2 * diarization[i].end
           /\ Aligned.speaker = diarization[i].speaker

\* C9: among several covering intervals, the one whose center is strictly
\* nearest to the midpoint gives the speaker, wherever it is in the timeline.
C9_NearestCenter ==
    out # None =>
        \A i \in Covering :
            (Cardinality(Covering) >= 2 /\ Nearest = {i}) =>
                Aligned.speaker = diarization[i].speaker

\* C9 witness: the strictly nearest interval is the last of the timeline and
\* the first covering one has another speaker.
C9_Witness ==
    /\ out # None
    /\ Cardinality(Covering) >= 2
    /\ Nearest = {Len(diarization)}
    /\ Aligned.speaker = diarization[Len(diarization)].speaker
    /\ \E j \in Covering : diarization[j].speaker # Aligned.speaker

Reorderings(rs) ==
    {[k \in DOMAIN rs |-> rs[f[k]]] : f \in Permutations(DOMAIN rs)}

NoSpaceBefore == {",", ".", "!", "?", ":", ";", ")", "]", "}", "'"}
NoSpaceAfter == {"(", "[", "{", "'"}
Hello == <<"h", "e", "l", "l", "o">>
World == <<"w", "o", "r", "l", "d">>
There == <<"t", "h", "e", "r", "e">>

\* C12: joining a token to a non-empty text appends it with no space when the
\* token is one of , . ! ? : ; ) ] } ' or the text ends in one of ( [ { ', and
\* with exactly one space otherwise; "hello" and "," give "hello,", "(" and
\* "world" give "(world", "hello" and "there" give "hello there".
C12_JoinSpacing ==
    (out # None /\ prev_text # <<>>) =>
        /\ out[1] =
              IF \/ (Len(token) = 1 /\ token[1] \in NoSpaceBefore)
                 \/ prev_text[Len(prev_text)] \in NoSpaceAfter
              THEN prev_text \o token
              ELSE prev_text \o <<" ">> \o token
        /\ (prev_text = Hello /\ token = <<",">>) => out[1] = <<"h", "e", "l", "l", "o", ",">>
        /\ (prev_text = <<"(">> /\ token = World) => out[1] = <<"(", "w", "o", "r", "l", "d">>
        /\ (prev_text = Hello /\ token = There) =>
              out[1] = <<"h", "e", "l", "l", "o", " ", "t", "h", "e", "r", "e">>

\* A word joined to a text that ends in an apostrophe.
C12_Witness ==
    /\ out # None
    /\ Len(prev_text) = 2 /\ prev_text[2] = "'"
    /\ token = There
    /\ out[1] = prev_text \o There

\* ------------------------------------------------- claims: the merged result

\* The sample inputs: words hi [0.0, 0.5], there [0.5, 1.0], bye [2.0, 2.5] and
\* turns [0, 1] of A, [1.5, 3] of B, in ticks of half a second.
SampleInputs == whisper_result = Some(ScenarioWhisper) /\ diarization = ScenarioDiarization

\* C13: on the sample inputs the words get speakers A, A, B and there are
\* exactly two segments: A saying "hi there" from 0.0 to 1.0, then B saying
\* "bye" from 2.0 to 2.5.
C13_EndToEnd ==
    (out # None /\ SampleInputs) =>
        /\ [k \in DOMAIN Merged.word_segments |-> Merged.word_segments[k].speaker]
              = <<"A", "A", "B">>
        /\ [k \in DOMAIN Merged.segments |->
                <<Merged.segments[k].speaker, Merged.segments[k].text,
                  Merged.segments[k].start, Merged.segments[k].end>>]
              = << <<"A", <<"h", "i", " ", "t", "h", "e", "r", "e">>, 0, 2>>,
                   <<"B", <<"b", "y", "e">>, 4, 5>> >>

C13_Witness ==
    /\ out # None
    /\ SampleInputs
    /\ Len(Merged.segments) = 2
    /\ Len(Merged.segments[1].words) = 2

\* C14: every segment has at least one word, starts where its first word
\* starts, ends where its last word ends, and all its words have the
\* segment's speaker, the unassigned one included.
C14_SegmentShape ==
    out # None =>
        \A k \in DOMAIN Merged.segments :
            LET s == Merged.segments[k]
            IN /\ s.words # <<>>
               /\ s.start = s.words[1].start
               /\ s.end = s.words[Len(s.words)].end
               /\ \A j \in DOMAIN s.words : s.words[j].speaker = s.speaker

\* A segment of two unassigned words that end at different times.
C14_Witness ==
    /\ out # None
    /\ \E k \in DOMAIN Merged.segments :
          LET s == Merged.segments[k]
          IN /\ s.speaker = NoSpeaker
             /\ Len(s.words) = 2
             /\ s.words[1].end # s.words[2].end
             /\ s.end = s.words[2].end

AssignedLabels ==
    {Merged.word_segments[k].speaker : k \in DOMAIN Merged.word_segments} \ {NoSpeaker}
TimelineLabels == {diarization[k].speaker : k \in DOMAIN diarization}

\* C17: speakers lists exactly the labels given to at least one word, each
\* once; the unassigned value is never listed, nor is a label of the timeline
\* that no word got.
C17_SpeakersExact ==
    out # None =>
        /\ Range(Merged.speakers) = AssignedLabels
        /\ \A i \in DOMAIN Merged.speakers : \A j \in DOMAIN Merged.speakers :
              Merged.speakers[i] = Merged.speakers[j] => i = j
        /\ NoSpeaker \notin Range(Merged.speakers)

\* Two words of one speaker, an unassigned word, and a label of the timeline
\* that no word got.
C17_Witness ==
    /\ out # None
    /\ Len(Merged.speakers) = 1
    /\ \E i \in DOMAIN Merged.word_segments : \E j \in DOMAIN Merged.word_segments :
          /\ i # j
          /\ Merged.word_segments[i].speaker = Merged.speakers[1]
          /\ Merged.word_segments[j].speaker = Merged.speakers[1]
    /\ \E k \in DOMAIN Merged.word_segments : Merged.word_segments[k].speaker = NoSpeaker
    /\ TimelineLabels \ AssignedLabels # {}

\* ------------------------------------------------------ claims: the timing record

\* C15: in every returned result the reported total time is the reported
\* parallel time plus the reported merge time, however the clock advances
\* between the measurements.
C15_TotalIsSum ==
    (pc = "returned" /\ timing # None) =>
        timing[1].total_time = timing[1].parallel_time + timing[1].merge_time

\* C16: in every returned result time_saved is whisper_time plus
\* diarization_time minus parallel_time, from the values of the same record,
\* and is not raised to zero when negative.
C16_TimeSaved ==
    (pc = "returned" /\ timing # None) =>
        timing[1].time_saved =
            timing[1].whisper_time + timing[1].diarization_time - timing[1].parallel_time

\* A returned result whose time_saved is negative.
C16_Witness ==
    /\ pc = "returned"
    /\ timing # None
    /\ timing[1].time_saved < 0
    /\ timing[1].time_saved = - timing[1].parallel_time

\* ------------------------------------------------- claims: order of completion

AfterLoop ==
    {"finally", "check", "parallel_time", "merge_start", "merge", "timing", "total_time",
     "report", "returned"}

\* C18: the result depends on what the two tasks returned and not on which
\* of them finished first: after the loop each local holds its own task's
\* output, and the returned text, segments, word_segments, language and
\* speakers are the merge of those two outputs.
C18_CompletionOrderIrrelevant ==
    /\ (pc \in AfterLoop /\ exc = "none") => \A t \in Tasks : res[t] = taskRet[t]
    /\ pc = "returned" =>
          result = Some(_merge_results(taskRet["whisper"][1], taskRet["diarization"][1]))

\* A result returned after the diarization finished first.
C18_Witness ==
    /\ pc = "returned"
    /\ completion = <<"diarization", "whisper">>
    /\ result # None
    /\ result[1].speakers = <<"A", "B">>

\* The same result returned after the transcription finished first.
C18_WitnessWhisperFirst ==
    /\ pc = "returned"
    /\ completion = <<"whisper", "diarization">>
    /\ result # None
    /\ result[1].speakers = <<"A", "B">>

\* --------------------------------------------------- claims: outcomes of a call

Done == pc = "returned" /\ result # None /\ timing # None
Failed == pc = "raised" /\ exc \in TaskErrors \cup {"RuntimeError"}
Cancelled == pc = "raised" /\ exc = "KeyboardInterrupt"
Observed == exc # "none" \/ cancels > 0

\* C19: a call ends in exactly one of Done, Failed and Cancelled and stays
\* there; once the calling thread has seen a task failure or an interrupt the
\* call never returns a result, even if the other task completes afterwards.
C19_OutcomesTerminal ==
    /\ [](Terminated =>
            /\ Done \/ Failed \/ Cancelled
            /\ ~(Done /\ Failed) /\ ~(Done /\ Cancelled) /\ ~(Failed /\ Cancelled)
            /\ Observed => ~Done)
    /\ [][Observed => (Observed' /\ pc' # "returned")]_vars
    /\ [][Terminated => (pc' = pc /\ exc' = exc /\ result' = result /\ timing' = timing)]_vars

\* Failed from the state with both tasks pending: the transcription failed
\* first, the diarization completed after it, and the call ended Failed
\* without having collected the diarization.
C19_Witness ==
    /\ Failed
    /\ exc = "WhisperError"
    /\ completion = <<"whisper", "diarization">>
    /\ fut["diarization"] = "ok"
    /\ taskRet["diarization"] # None
    /\ res["diarization"] = None

\* Failed from the state with one task pending: the transcription completed
\* and was collected, then the diarization failed.
C19_WitnessOnePending ==
    /\ Failed
    /\ exc = "DiarizationError"
    /\ completion = <<"whisper", "diarization">>
    /\ res["whisper"] # None

\* ------------------------------------------- claims: cancellation at the join

\* C20: when an interrupt arrived while the calling thread was waiting in
\* as_completed with a task still pending, cancel() has been called on both
\* futures by the time the call ends raising KeyboardInterrupt.
C20_InterruptCancelsBoth ==
    (Cancelled /\ "waiting" \in cancelAt) => cancelCalled

\* ------------------------------------------------ claims: the shared boundary

\* C21: of two adjacent turns [a, b] and [b, c] of different speakers, a word
\* whose midpoint is exactly b belongs to the later turn only and gets its
\* speaker, never the earlier turn's.
C21_BoundaryClosedOpen ==
    out # None =>
        \A i \in DOMAIN diarization : \A j \in DOMAIN diarization :
            (/\ diarization[i].end = diarization[j].start
             /\ Mid2 = 2 * diarization[i].end
             /\ diarization[i].speaker # diarization[j].speaker
             /\ Covering = {i, j}) =>
                Aligned.speaker = diarization[j].speaker

\* ------------------------------------------------------- claims: maximal runs

\* The segment the k-th word of the flat word list falls in.
RECURSIVE SegmentOf(_, _)
SegmentOf(segments, k) ==
    IF k <= Len(segments[1].words) THEN 1
    ELSE 1 + SegmentOf(Tail(segments), k - Len(segments[1].words))

\* C22: there are no segments iff there are no words; two consecutive words
\* are in the same segment iff their speakers are equal, the unassigned
\* speaker counting as a speaker; so two adjacent segments differ in speaker.
C22_MaximalRuns ==
    out # None =>
        /\ (Merged.segments = <<>>) <=> (Merged.word_segments = <<>>)
        /\ \A k \in 1 .. Len(Merged.word_segments) - 1 :
              (SegmentOf(Merged.segments, k) = SegmentOf(Merged.segments, k + 1))
                  <=> (Merged.word_segments[k].speaker = Merged.word_segments[k + 1].speaker)
        /\ \A s \in 1 .. Len(Merged.segments) - 1 :
              Merged.segments[s].speaker # Merged.segments[s + 1].speaker

\* A speaker's word, then two unassigned words grouped in one segment.
C22_Witness ==
    /\ out # None
    /\ Len(Merged.word_segments) = 3
    /\ Len(Merged.segments) = 2
    /\ Merged.segments[1].speaker # NoSpeaker
    /\ Merged.segments[2].speaker = NoSpeaker
    /\ Len(Merged.segments[2].words) = 2

\* -------------------------------------------- claims: the transcription's words

Supplied == whisper_result[1]
\* How many words a transcribed segment stands for, and how many the segments
\* before the k-th stand for.
Contribution(segment) == IF segment.words = None THEN 1 ELSE Len(segment.words[1])
RECURSIVE WordsBefore(_, _)
WordsBefore(segments, k) ==
    IF k <= 1 THEN 0
    ELSE WordsBefore(segments, k - 1) + Contribution(segments[k - 1])

\* C23: a transcribed segment without per-word timestamps gives exactly one
\* word, with the segment's text, start and end, the speaker found at the
\* segment's midpoint by the rule used for words; the aggregation is the one
\* applied to any word list.
C23_FallbackWord ==
    out # None =>
        /\ Len(Merged.word_segments)
              = WordsBefore(Supplied.segments, Len(Supplied.segments) + 1)
        /\ \A k \in DOMAIN Supplied.segments :
              LET segment == Supplied.segments[k]
                  w == Merged.word_segments[WordsBefore(Supplied.segments, k) + 1]
              IN segment.words = None =>
                    /\ w.word = segment.text
                    /\ w.start = segment.start
                    /\ w.end = segment.end
                    /\ w.speaker
                          = _get_speaker_at_timestamp(diarization, segment.start + segment.end)
        /\ Merged.segments = _group_by_speaker(Merged.word_segments)

\* A segment without words whose start and midpoint lie in turns of different
\* speakers, followed by a segment with words.
C23_Witness ==
    /\ out # None
    /\ Len(Supplied.segments) = 2
    /\ Supplied.segments[1].words = None
    /\ Supplied.segments[2].words # None
    /\ Len(Merged.word_segments) = 3
    /\ Merged.word_segments[1].speaker # NoSpeaker
    /\ Merged.word_segments[1].speaker
          # _get_speaker_at_timestamp(diarization, 2 * Supplied.segments[1].start)

\* The words of the transcription in the order supplied: segment by segment,
\* a segment without words standing as one word.
SuppliedWords ==
    Flatten([k \in DOMAIN Supplied.segments |->
                IF Supplied.segments[k].words = None
                THEN <<[word |-> Supplied.segments[k].text,
                        start |-> Supplied.segments[k].start,
                        end |-> Supplied.segments[k].end]>>
                ELSE Supplied.segments[k].words[1]])

\* C24: word_segments lists the transcription's words in the order supplied,
\* unsorted, each with its text, start and end unchanged, and the result's
\* text is the transcription's text.
C24_TranscriptionUnchanged ==
    out # None =>
        /\ [k \in DOMAIN Merged.word_segments |->
                [word |-> Merged.word_segments[k].word,
                 start |-> Merged.word_segments[k].start,
                 end |-> Merged.word_segments[k].end]] = SuppliedWords
        /\ Merged.text = Supplied.text

\* Words supplied out of time order, in two transcribed segments.
C24_Witness ==
    /\ out # None
    /\ Len(Supplied.segments) >= 2
    /\ Len(Merged.word_segments) = 3
    /\ Merged.word_segments[1].start > Merged.word_segments[2].start
    /\ Merged.word_segments[2].word # Merged.word_segments[3].word
    /\ Merged.text # <<>>

\* ------------------------------------------------ claims: which error surfaces

Raised(t) == fut[t] = "exc"
OriginalFailure(t) == IF t = "whisper" THEN "WhisperError" ELSE "DiarizationError"

\* C25: when exactly one task raised (and the user did not interrupt), the
\* call ends raising that task's own exception, not a generic error and not
\* an error of the clean-up.
C25_OriginalFailure ==
    \A t \in Tasks :
        (Terminated /\ cancels = 0 /\ Raised(t) /\ \A u \in Tasks \ {t} : ~Raised(u)) =>
            (pc = "raised" /\ exc = OriginalFailure(t))

\* The diarization raised while the transcription completed; the clean-up of
\* the except block ran and the call ended with the diarization's error.
C25_Witness ==
    /\ pc = "raised"
    /\ cancels = 0
    /\ Raised("diarization")
    /\ fut["whisper"] = "ok"
    /\ cancelCalled
    /\ exc = "DiarizationError"

\* -------------------------------------------------- claims: workers at the exit

\* C26 as claimed: whenever the call has returned or raised, no task is queued
\* or running any more.
C26_WorkersFinished == Terminated => WorkersIdle

\* C26 amended: when the call has returned or raised and no interrupt arrived
\* while it was in the finally clause, no task is queued or running any more;
\* this covers the return, a task failure and an interrupt before the finally
\* clause.
C26_WorkersFinishedUnlessJoinInterrupted ==
    (Terminated /\ "finally" \notin cancelAt) => WorkersIdle

\* An interrupted call that ended after both tasks had run to their end.
C26_Witness ==
    /\ pc = "raised"
    /\ "waiting" \in cancelAt
    /\ "finally" \notin cancelAt
    /\ Len(completion) = 2
    /\ \A t \in Tasks : invoked[t] = 1 /\ fut[t] \in {"ok", "exc"}

\* C27 as claimed: when both tasks raised, the call ends with the failure of
\* the task whose future finished first.
C27_FirstCompletedFailure ==
    (Terminated /\ cancels = 0 /\ \A t \in Tasks : Raised(t)) =>
        (pc = "raised" /\ exc = OriginalFailure(completion[1]))

\* C27 amended: when both tasks raised, the call ends with exactly one error,
\* the failure of the task whose future as_completed yielded first, never the
\* other one; that is the first to finish unless both had finished before
\* as_completed was called.
C27_FirstYieldedFailure ==
    (Terminated /\ cancels = 0 /\ \A t \in Tasks : Raised(t)) =>
        /\ pc = "raised"
        /\ exc = OriginalFailure(cur)
        /\ res = [t \in Tasks |-> None]
        /\ doneAtEnter # Tasks => cur = completion[1]

\* Both tasks raised, the diarization first and while the call was already
\* waiting; the call ended with the diarization's failure.
C27_Witness ==
    /\ pc = "raised"
    /\ cancels = 0
    /\ \A t \in Tasks : Raised(t)
    /\ doneAtEnter = {}
    /\ completion = <<"diarization", "whisper">>
    /\ exc = "DiarizationError"

\* --------------------------------------------------- claims: timing inequalities

Max(a, b) == IF a >= b THEN a ELSE b
Min(a, b) == IF a <= b THEN a ELSE b

\* C28: the clock never going back, every returned result has parallel_time
\* at least the larger of whisper_time and diarization_time, time_saved at
\* most the smaller of them, and total_time at least parallel_time plus
\* merge_time.
C28_TimingInequalities ==
    (pc = "returned" /\ timing # None) =>
        /\ timing[1].parallel_time >= Max(timing[1].whisper_time, timing[1].diarization_time)
        /\ timing[1].time_saved <= Min(timing[1].whisper_time, timing[1].diarization_time)
        /\ timing[1].total_time >= timing[1].parallel_time + timing[1].merge_time

\* A result whose tasks took different times, the parallel time being the
\* longer one, and whose total time is more than the parallel time plus the
\* merge time.
C28_Witness ==
    /\ pc = "returned"
    /\ timing # None
    /\ timing[1].whisper_time >= 1
    /\ timing[1].diarization_time < timing[1].whisper_time
    /\ timing[1].parallel_time = timing[1].whisper_time
    /\ timing[1].time_saved = timing[1].diarization_time
    /\ timing[1].total_time > timing[1].parallel_time + timing[1].merge_time

\* -------------------------------------------------- claims: a task returning None

ReturnedNone(t) == fut[t] = "ok" /\ taskRet[t] = None
AfterCheck ==
    {"parallel_time", "merge_start", "merge", "timing", "total_time", "report", "returned"}

\* C30: when no task raised and a task returned None (and the user did not
\* interrupt), the call ends raising RuntimeError and the merge has not run;
\* the call never gets past the check with a result missing.
C30_NoneIsFailure ==
    /\ (/\ Terminated
        /\ cancels = 0
        /\ \A t \in Tasks : ~Raised(t)
        /\ \E t \in Tasks : ReturnedNone(t)) =>
            (pc = "raised" /\ exc = "RuntimeError" /\ ~mergeRan /\ result = None)
    /\ (pc \in AfterCheck \/ mergeRan) => \A t \in Tasks : res[t] # None

\* The transcription returned a value and the diarization returned None; the
\* call ended with RuntimeError after both were collected.
C30_Witness ==
    /\ pc = "raised"
    /\ exc = "RuntimeError"
    /\ cancels = 0
    /\ fut["whisper"] = "ok" /\ taskRet["whisper"] # None
    /\ ReturnedNone("diarization")
    /\ res["whisper"] # None
    /\ ~mergeRan

\* ------------------------------------------------------- claims: termination

\* C29: with tasks that finish and fair scheduling the call ends: it returns
\* a result with its timing when both tasks returned a value, and raises
\* when a task raised; it does not stay at the join or at the shutdown.
C29_Terminates ==
    /\ <>Terminated
    /\ [](Terminated =>
            /\ (cancels = 0 /\ \A t \in Tasks : fut[t] = "ok" /\ taskRet[t] # None) =>
                   (pc = "returned" /\ result # None /\ timing # None)
            /\ (\E t \in Tasks : Raised(t)) => pc = "raised")

\* The call has ended after an interrupt that found it waiting at the join
\* and a task that was still running then.
C29_Witness ==
    /\ Terminated
    /\ "waiting" \in cancelAt
    /\ doneAtEnter = {}
    /\ Len(completion) = 2

====
